---- MODULE Spec2Model ----
(***************************************************************************)
(* Verification model of src/design-patterns/visitor3.cpp: the CRTP        *)
(* Visitable mixin, the variadic Visitor<Types...> chain (visitorX), the   *)
(* FunctionAdapter<Result> dispatcher (visitorGetName, visitorGetArea) and *)
(* main.                                                                   *)
(*                                                                         *)
(* Values of type double are decimal fixed-point numbers with four         *)
(* fractional digits (Scale units per 1.0); every double the model meets   *)
(* (2, 3.1415, 4.0, -100.0, whole radii and sides) is exact at that        *)
(* resolution.  A Result value is a record tagged with its C++ type.       *)
(***************************************************************************)
EXTENDS Integers, Sequences, FiniteSets, TLC

\* ------------------------------------------------------------------ bounds
MaxCalls  == 3      \* calls an arbitrary client makes on the dispatchers
MaxRadius == 3      \* Circle radii 1.0 .. MaxRadius.0
MaxSide   == 4      \* Square sides 1.0 .. MaxSide.0

\* ------------------------------------------------------------------ values
Scale == 10000

\* The literal 3.1415 of the Circle lambda of visitorGetArea, in 1/Scale units.
PiLiteral == 31415

\* a * b for two fixed-point doubles (split so that no intermediate product
\* leaves the 32-bit integer range of TLC).
Mul(a, b) == (a \div Scale) * b + ((a % Scale) * b) \div Scale

StrVal(s) == [t |-> "string", s |-> s, n |-> 0]
DblVal(n) == [t |-> "double", s |-> "", n |-> n]
Void == [t |-> "void", s |-> "", n |-> 0]
\* The value of an object that was never initialised, or was read or written
\* in a data race.
Indeterminate == [t |-> "indeterminate", s |-> "", n |-> 0]

\* Result{} : value-initialisation of the Result template argument.
ValueInit(R) == IF R = "string" THEN StrVal("") ELSE DblVal(0)

\* ------------------------------------------------------------------ shapes
Circle(radius) == [type |-> "Circle", radius |-> radius, side |-> 0]
Square(side) == [type |-> "Square", radius |-> 0, side |-> side]
Blob == [type |-> "Blob", radius |-> 0, side |-> 0]
NoShape == [type |-> "none", radius |-> 0, side |-> 0]

\* The sample shapes of main.
s1 == Circle(3 * Scale)
s2 == Square(4 * Scale)
s3 == Blob

Circles == {Circle(k * Scale) : k \in 1..MaxRadius}
Squares == {Square(k * Scale) : k \in 1..MaxSide}
Shapes == Circles \cup Squares \cup {Blob}

\* Visitable<Implementation>: the CRTP argument each concrete shape passes.
Implementation(sh) == sh.type

\* static_cast<Implementation&>(*this): the same object, typed as T.
static_cast(T, sh) == [sh EXCEPT !.type = T]

\* ------------------------------------------------------------------ lambdas
NameLambdas == <<"name_circle", "name_square", "name_blob">>
AreaLambdas == <<"area_circle", "area_square", "area_blob">>
Lambdas == {NameLambdas[i] : i \in 1..3} \cup {AreaLambdas[i] : i \in 1..3}

\* The lambdas, with the Circle lambda of visitorGetArea computing 2*3.1415*r.
Call_circle_perimeter(fn, sh) ==
    CASE fn = "name_circle" -> StrVal("circle")
      [] fn = "name_square" -> StrVal("square")
      [] fn = "name_blob"   -> StrVal("blob")
      [] fn = "area_circle" -> DblVal(Mul(Mul(2 * Scale, PiLiteral), sh.radius))
      [] fn = "area_square" -> DblVal(Mul(4 * Scale, sh.side))
      [] fn = "area_blob"   -> DblVal(-100 * Scale)

\* std::function::operator(): the body of each lambda bound in the file.
Call(fn, sh) ==
    CASE fn = "name_circle" -> StrVal("circle")
      [] fn = "name_square" -> StrVal("square")
      [] fn = "name_blob"   -> StrVal("blob")
      [] fn = "area_circle" ->
            DblVal(Mul(Mul(Mul(2 * Scale, PiLiteral), sh.radius), sh.radius))
      [] fn = "area_square" -> DblVal(Mul(4 * Scale, sh.side))
      [] fn = "area_blob"   -> DblVal(-100 * Scale)

\* ------------------------------------------------------------------ Visitor<Types...>
XTypes == <<"Circle", "Square", "Blob">>
XFuncs == <<"x_circle", "x_square", "x_blob">>

\* The class the unqualified name Visitor denotes inside Visitor<T, Types...>:
\* the injected-class-name, i.e. the specialisation being defined itself.
InjectedClassName(types) == types

\* Constructors of Visitor<T> and Visitor<T, Types...>.  The result lists the
\* levels of the inheritance chain, most derived first.
RECURSIVE Visitor(_, _)
Visitor(types, funcs) ==
    IF Len(types) = 1
    THEN [wellFormed |-> TRUE,
          levels |-> <<[head |-> types[1], _func |-> funcs[1]]>>]
    ELSE IF InjectedClassName(types) = Tail(types)
         THEN \* a base-class initialiser: the tail goes to Visitor<Types...>
              LET base == Visitor(Tail(types), Tail(funcs))
              IN  [wellFormed |-> base.wellFormed,
                   levels |-> <<[head |-> Head(types), _func |-> Head(funcs)]>>
                                 \o base.levels]
         ELSE \* Visitor(funcn...) names the constructor's own class: a
              \* delegation that follows the mem-initializer _func(func).
              \* The base Visitor<Types...> receives nothing; no object is built.
              [wellFormed |-> FALSE, levels |-> <<>>]

\* Visitor::visit(T&): the functions a call with an argument of type T invokes.
\* The using-declarations make every level's overload visible; the overload
\* whose parameter is T& is the one of the level whose head is T.
InvokedByVisit(v, T) ==
    LET own == SelectSeq(v.levels, LAMBDA l : l.head = T)
    IN  [i \in 1..Len(own) |-> own[i]._func]

\* ------------------------------------------------------------------ FunctionAdapter<Result>
Adapters == {"visitorGetName", "visitorGetArea"}

\* The constructor without the _res{} initialiser.
FunctionAdapter_no_init(R, fnCircle, fnSquare, fnBlob) ==
    [_res |-> Indeterminate,
     _fn_circle |-> fnCircle, _fn_square |-> fnSquare, _fn_blob |-> fnBlob]

\* FunctionAdapter(Func<Circle>, Func<Square>, Func<Blob>)
FunctionAdapter(R, fnCircle, fnSquare, fnBlob) ==
    [_res |-> ValueInit(R),
     _fn_circle |-> fnCircle, _fn_square |-> fnSquare, _fn_blob |-> fnBlob]

\* The template argument and the constructor arguments of the two globals.
ResultType(d) == IF d = "visitorGetName" THEN "string" ELSE "double"
CtorArgs(d) == IF d = "visitorGetName" THEN NameLambdas ELSE AreaLambdas

VARIABLES
    adapter,    \* the global FunctionAdapter objects, by name
    visitorX,   \* the global Visitor<Circle, Square, Blob>
    invoked,    \* how often each lambda has run
    handled,    \* per adapter, the argument of its latest visit (NoShape: none)
    caller,     \* who drives the adapters: "main", "client" or "threads"
    pc,         \* main's position in MainScript
    cout,       \* what main has printed
    lastCall,   \* the latest call of main or the client
    ret,        \* what that call returned
    nCalls,     \* calls made so far
    tpc,        \* per thread: where it is inside its operator() call
    targ,       \* per thread: the adapter and shape of its call
    tret,       \* per thread: what its call returned
    raced       \* per thread: its call overlapped a call on the same adapter

vars == <<adapter, visitorX, invoked, handled, caller, pc, cout, lastCall, ret,
          nCalls, tpc, targ, tret, raced>>

\* The objects the adapter's methods read and write.
Heap == [adapter |-> adapter, invoked |-> invoked, handled |-> handled]
Store(h) ==
    /\ adapter' = h.adapter
    /\ invoked' = h.invoked
    /\ handled' = h.handled

\* _res = fn(sh): run the bound function, store its value.
CallAndStore(h, d, fn, sh) ==
    [adapter |-> [h.adapter EXCEPT ![d]._res = Call(fn, sh)],
     invoked |-> [h.invoked EXCEPT ![fn] = @ + 1],
     handled |-> [h.handled EXCEPT ![d] = sh]]

\* visit with a _res shared by every FunctionAdapter (a static member).
visit_static_res(h, d, sh) ==
    LET fn == CASE sh.type = "Circle" -> h.adapter[d]._fn_circle
                [] sh.type = "Square" -> h.adapter[d]._fn_square
                [] sh.type = "Blob"   -> h.adapter[d]._fn_blob
    IN  [adapter |-> [e \in Adapters |-> [h.adapter[e] EXCEPT !._res = Call(fn, sh)]],
         invoked |-> [h.invoked EXCEPT ![fn] = @ + 1],
         handled |-> [h.handled EXCEPT ![d] = sh]]

\* visit whose Square overload calls _fn_blob.
visit_wrong_fn(h, d, sh) ==
    CASE sh.type = "Circle" -> CallAndStore(h, d, h.adapter[d]._fn_circle, sh)
      [] sh.type = "Square" -> CallAndStore(h, d, h.adapter[d]._fn_blob, sh)
      [] sh.type = "Blob"   -> CallAndStore(h, d, h.adapter[d]._fn_blob, sh)

\* visit that keeps the larger of the old and the new result.
visit_accumulate(h, d, sh) ==
    LET fn == CASE sh.type = "Circle" -> h.adapter[d]._fn_circle
                [] sh.type = "Square" -> h.adapter[d]._fn_square
                [] sh.type = "Blob"   -> h.adapter[d]._fn_blob
        new == Call(fn, sh)
        old == h.adapter[d]._res
        keep == IF h.handled[d] # NoShape /\ old.n > new.n THEN old ELSE new
    IN  [adapter |-> [h.adapter EXCEPT ![d]._res = keep],
         invoked |-> [h.invoked EXCEPT ![fn] = @ + 1],
         handled |-> [h.handled EXCEPT ![d] = sh]]

\* visit that rebinds the Circle slot to the function it has just called.
visit_rebind(h, d, sh) ==
    LET fn == CASE sh.type = "Circle" -> h.adapter[d]._fn_circle
                [] sh.type = "Square" -> h.adapter[d]._fn_square
                [] sh.type = "Blob"   -> h.adapter[d]._fn_blob
    IN  [adapter |-> [h.adapter EXCEPT ![d]._res = Call(fn, sh),
                                       ![d]._fn_circle = fn],
         invoked |-> [h.invoked EXCEPT ![fn] = @ + 1],
         handled |-> [h.handled EXCEPT ![d] = sh]]

\* void visit(Circle&), visit(Square&), visit(Blob&): the overload is chosen by
\* the static type of the argument.
visit(h, d, sh) ==
    CASE sh.type = "Circle" -> CallAndStore(h, d, h.adapter[d]._fn_circle, sh)
      [] sh.type = "Square" -> CallAndStore(h, d, h.adapter[d]._fn_square, sh)
      [] sh.type = "Blob"   -> CallAndStore(h, d, h.adapter[d]._fn_blob, sh)

\* get that moves the result out of the slot.
get_move(h, d) ==
    [heap |-> [h EXCEPT !.adapter[d]._res = ValueInit(ResultType(d))],
     val |-> h.adapter[d]._res]

\* Result get(): the value returned and the heap it leaves.
get(h, d) == [heap |-> h, val |-> h.adapter[d]._res]

\* operator() that reads the slot before it visits.
operatorCall_stale(h, d, sh) ==
    [heap |-> visit(h, d, sh), val |-> get(h, d).val]

\* Result operator()(Visitable&): this->visit(visitable); return this->get();
operatorCall(h, d, sh) == get(visit(h, d, sh), d)

\* accept that visits twice.
accept_twice(h, sh, d) ==
    visit(visit(h, d, static_cast(Implementation(sh), sh)), d,
          static_cast(Implementation(sh), sh))

\* Visitable<Implementation>::accept(Visitor&& v)
accept(h, sh, d) == visit(h, d, static_cast(Implementation(sh), sh))

\* ------------------------------------------------------------------ calls
NoCall == [op |-> "none", d |-> "none", sh |-> NoShape]

DoAccept(d, sh) ==
    /\ Store(accept(Heap, sh, d))
    /\ ret' = Void
    /\ lastCall' = [op |-> "accept", d |-> d, sh |-> sh]
    /\ nCalls' = nCalls + 1

DoVisit(d, sh) ==
    /\ Store(visit(Heap, d, sh))
    /\ ret' = Void
    /\ lastCall' = [op |-> "visit", d |-> d, sh |-> sh]
    /\ nCalls' = nCalls + 1

DoInvoke(d, sh) ==
    LET r == operatorCall(Heap, d, sh)
    IN  /\ Store(r.heap)
        /\ ret' = r.val
        /\ lastCall' = [op |-> "invoke", d |-> d, sh |-> sh]
        /\ nCalls' = nCalls + 1

DoGet(d) ==
    LET r == get(Heap, d)
    IN  /\ Store(r.heap)
        /\ ret' = r.val
        /\ lastCall' = [op |-> "get", d |-> d, sh |-> NoShape]
        /\ nCalls' = nCalls + 1

\* ------------------------------------------------------------------ main
Stmt(line, op, d, sh, text) ==
    [line |-> line, op |-> op, d |-> d, sh |-> sh, text |-> text]

\* The statements of main, in order.
MainScript == <<
    Stmt(151, "print", "none", NoShape, "===> Experiment 1: FunctionAdapter "),
    Stmt(154, "accept", "visitorGetName", s1, ""),
    Stmt(155, "get", "visitorGetName", NoShape, "Type of shape 1 = "),
    Stmt(156, "invoke", "visitorGetName", s2, "Type of shape 2 = "),
    Stmt(157, "invoke", "visitorGetName", s3, "Type of shape 3 = "),
    Stmt(159, "print", "none", NoShape, "===> Experiment 2: FunctionAdapter "),
    Stmt(161, "accept", "visitorGetArea", s1, ""),
    Stmt(162, "get", "visitorGetArea", NoShape, "Perimeter of shape 1 = "),
    Stmt(163, "accept", "visitorGetArea", s2, ""),
    Stmt(164, "get", "visitorGetArea", NoShape, "Perimeter of shape 2 = "),
    Stmt(165, "invoke", "visitorGetArea", s2, "Perimeter of shape 2 = "),
    Stmt(166, "accept", "visitorGetArea", s3, ""),
    Stmt(167, "get", "visitorGetArea", NoShape, "Perimeter of shape 3 = "),
    Stmt(170, "return", "none", NoShape, "") >>

Threads == {"t1", "t2"}
NoArg == [d |-> "none", sh |-> NoShape]

\* Static initialisation of the globals; nobody has called anything yet.
Globals ==
    /\ adapter = [d \in Adapters |->
                    FunctionAdapter(ResultType(d), CtorArgs(d)[1], CtorArgs(d)[2],
                                    CtorArgs(d)[3])]
    /\ visitorX = Visitor(XTypes, XFuncs)
    /\ invoked = [fn \in Lambdas |-> 0]
    /\ handled = [d \in Adapters |-> NoShape]
    /\ pc = 1
    /\ cout = <<>>
    /\ lastCall = NoCall
    /\ ret = Void
    /\ nCalls = 0
    /\ tpc = [t \in Threads |-> "idle"]
    /\ targ = [t \in Threads |-> NoArg]
    /\ tret = [t \in Threads |-> Void]
    /\ raced = [t \in Threads |-> FALSE]

\* The adapters are driven either by main or by an arbitrary single-threaded
\* client of the two globals.
Init ==
    /\ Globals
    /\ caller \in {"main", "client"}

threadVars == <<tpc, targ, tret, raced>>

\* One statement of main.
MainStep ==
    /\ caller = "main"
    /\ pc \in 1..Len(MainScript)
    /\ LET st == MainScript[pc]
       IN  CASE st.op = "print" ->
                  /\ cout' = Append(cout, [text |-> st.text, val |-> Void])
                  /\ UNCHANGED <<adapter, invoked, handled, lastCall, ret, nCalls>>
             [] st.op = "accept" ->
                  /\ DoAccept(st.d, st.sh)
                  /\ UNCHANGED cout
             [] st.op = "get" ->
                  /\ DoGet(st.d)
                  /\ cout' = Append(cout, [text |-> st.text, val |-> ret'])
             [] st.op = "invoke" ->
                  /\ DoInvoke(st.d, st.sh)
                  /\ cout' = Append(cout, [text |-> st.text, val |-> ret'])
             [] st.op = "return" ->
                  UNCHANGED <<adapter, invoked, handled, lastCall, ret, nCalls, cout>>
    /\ pc' = pc + 1
    /\ UNCHANGED <<visitorX, caller, threadVars>>

\* The calls of an arbitrary client.
Accept(d, sh) ==
    /\ caller = "client"
    /\ nCalls < MaxCalls
    /\ DoAccept(d, sh)
    /\ UNCHANGED <<visitorX, caller, pc, cout, threadVars>>

Visit(d, sh) ==
    /\ caller = "client"
    /\ nCalls < MaxCalls
    /\ DoVisit(d, sh)
    /\ UNCHANGED <<visitorX, caller, pc, cout, threadVars>>

Invoke(d, sh) ==
    /\ caller = "client"
    /\ nCalls < MaxCalls
    /\ DoInvoke(d, sh)
    /\ UNCHANGED <<visitorX, caller, pc, cout, threadVars>>

Get(d) ==
    /\ caller = "client"
    /\ nCalls < MaxCalls
    /\ DoGet(d)
    /\ UNCHANGED <<visitorX, caller, pc, cout, threadVars>>

Next ==
    \/ MainStep
    \/ \E d \in Adapters, sh \in Shapes : Accept(d, sh)
    \/ \E d \in Adapters, sh \in Shapes : Visit(d, sh)
    \/ \E d \in Adapters, sh \in Shapes : Invoke(d, sh)
    \/ \E d \in Adapters : Get(d)

Spec == Init /\ [][Next]_vars

\* ------------------------------------------------------------------ two threads
\* Two callers each run operator() once on the globals, with no
\* synchronisation: FunctionAdapter holds no mutex and no atomic.  Each
\* statement of operator() is one step.  Accesses of two overlapping calls on
\* the same adapter are a data race; what a racing access reads or stores is
\* the value in program order or an indeterminate one.
RaceOutcomes(v, racing) == IF racing THEN {v, Indeterminate} ELSE {v}

InsideCall(t) == tpc[t] \in {"visit", "get"}

InitThreads ==
    /\ Globals
    /\ caller = "threads"

\* Thread t enters operator()(sh) of adapter d.
TCall(t, d, sh) ==
    /\ tpc[t] = "idle"
    /\ tpc' = [tpc EXCEPT ![t] = "visit"]
    /\ targ' = [targ EXCEPT ![t] = [d |-> d, sh |-> sh]]
    /\ raced' = [o \in Threads |->
                   \/ raced[o]
                   \/ (o = t /\ \E u \in Threads \ {t} :
                                    InsideCall(u) /\ targ[u].d = d)
                   \/ (o # t /\ InsideCall(o) /\ targ[o].d = d)]
    /\ UNCHANGED <<adapter, visitorX, invoked, handled, caller, pc, cout,
                   lastCall, ret, nCalls, tret>>

\* this->visit(visitable);
TVisit(t) ==
    /\ tpc[t] = "visit"
    /\ LET d == targ[t].d
           h == visit(Heap, d, targ[t].sh)
       IN  \E v \in RaceOutcomes(h.adapter[d]._res, raced[t]) :
               Store([h EXCEPT !.adapter[d]._res = v])
    /\ tpc' = [tpc EXCEPT ![t] = "get"]
    /\ UNCHANGED <<visitorX, caller, pc, cout, lastCall, ret, nCalls, targ, tret,
                   raced>>

\* return this->get();
TGet(t) ==
    /\ tpc[t] = "get"
    /\ LET r == get(Heap, targ[t].d)
       IN  /\ Store(r.heap)
           /\ \E v \in RaceOutcomes(r.val, raced[t]) :
                  tret' = [tret EXCEPT ![t] = v]
    /\ tpc' = [tpc EXCEPT ![t] = "done"]
    /\ UNCHANGED <<visitorX, caller, pc, cout, lastCall, ret, nCalls, targ, raced>>

NextThreads ==
    \/ \E t \in Threads, d \in Adapters, sh \in Shapes : TCall(t, d, sh)
    \/ \E t \in Threads : TVisit(t)
    \/ \E t \in Threads : TGet(t)

SpecThreads == InitThreads /\ [][NextThreads]_vars

\* ------------------------------------------------------------------ properties
\* The order of the parameter types of the FunctionAdapter constructor.
AdapterTypes == <<"Circle", "Square", "Blob">>
TypeIndex(T) == CHOOSE i \in 1..Len(AdapterTypes) : AdapterTypes[i] = T

\* The function the constructor call of global d binds to type T.
HandlerOf(d, T) == CtorArgs(d)[TypeIndex(T)]

HandleOps == {"accept", "visit", "invoke"}

\* A step in which main or the client completes a call.
CallStep == nCalls' = nCalls + 1

\* C1: whatever was called before, operator()(x) of a dispatcher returns the
\* value of the handler the constructor bound to x's own type, applied to x,
\* and of no handler bound to another type.
C1_InvokeReturnsOwnHandler ==
    lastCall.op = "invoke" =>
        /\ ret = Call(HandlerOf(lastCall.d, lastCall.sh.type), lastCall.sh)
        /\ {T \in {"Circle", "Square", "Blob"} :
               Call(HandlerOf(lastCall.d, T), lastCall.sh) = ret}
             = {lastCall.sh.type}

C1_Witness ==
    /\ lastCall.op = "invoke"
    /\ lastCall.sh.type = "Square"
    /\ nCalls = MaxCalls
    /\ invoked[HandlerOf(lastCall.d, "Circle")] > 0
    /\ ret = Call(HandlerOf(lastCall.d, "Square"), lastCall.sh)

\* C2: get() of a dispatcher equals the handler result of its most recent
\* visit alone: a later visit of another type overwrites the earlier value.
C2_LastResultIsMostRecent ==
    \A d \in Adapters :
        handled[d] # NoShape =>
            get(Heap, d).val = Call(HandlerOf(d, handled[d].type), handled[d])

C2_Witness ==
    /\ handled["visitorGetArea"] = Square(Scale)
    /\ invoked["area_circle"] > 0
    /\ get(Heap, "visitorGetArea").val = DblVal(4 * Scale)

\* C3: x.accept(D) runs D's visit exactly once with x at its concrete type: the
\* handler of that type runs once, no other handler runs, and D is left as
\* D.visit(x) leaves it, with get() the handler's value for x.
C3_AcceptIsOneVisit ==
    [][(CallStep /\ lastCall'.op = "accept") =>
          LET d == lastCall'.d
              sh == lastCall'.sh
              fn == HandlerOf(d, sh.type)
          IN  /\ invoked' = [invoked EXCEPT ![fn] = @ + 1]
              /\ adapter' = visit(Heap, d, sh).adapter
              /\ adapter'[d]._res = Call(fn, sh)]_vars

C3_Witness ==
    /\ lastCall.op = "accept"
    /\ lastCall.sh.type = "Blob"
    /\ invoked[HandlerOf(lastCall.d, "Blob")] = 1
    /\ adapter[lastCall.d]._res = Call(HandlerOf(lastCall.d, "Blob"), Blob)

\* C4 (as claimed): before any visit the result slot holds no defined value.
C4_SlotUndefinedBeforeVisit ==
    \A d \in Adapters :
        handled[d] = NoShape => get(Heap, d).val = Indeterminate

\* C4 (amended): before any visit get() returns the value-initialised Result,
\* the empty string for visitorGetName and 0.0 for visitorGetArea.
C4_SlotValueInitialised ==
    /\ \A d \in Adapters :
          handled[d] = NoShape => get(Heap, d).val = ValueInit(ResultType(d))
    /\ (lastCall.op = "get" /\ handled[lastCall.d] = NoShape) =>
          ret = ValueInit(ResultType(lastCall.d))

C4_Witness ==
    /\ lastCall.op = "get"
    /\ lastCall.d = "visitorGetName"
    /\ handled["visitorGetName"] = NoShape
    /\ ret = StrVal("")

\* What thread t's call returns when nothing interferes.
OwnResult(t) == Call(HandlerOf(targ[t].d, targ[t].sh.type), targ[t].sh)

\* C5: the dispatcher does not lock.  A call that overlaps no other call on
\* the same dispatcher returns its own handler's value; a call that does
\* overlap one returns its own value, the other caller's, or an indeterminate
\* one.
C5_UnsynchronisedSlot ==
    \A t \in Threads :
        tpc[t] = "done" =>
            /\ ~raced[t] => tret[t] = OwnResult(t)
            /\ tret[t] \in {OwnResult(t), Indeterminate} \cup
                  {OwnResult(o) : o \in {u \in Threads \ {t} :
                                            /\ raced[t]
                                            /\ tpc[u] \in {"get", "done"}
                                            /\ targ[u].d = targ[t].d}}

\* A caller's operator() has returned the other caller's handler result.
C5_Witness ==
    /\ tpc["t1"] = "done"
    /\ targ["t1"].d = targ["t2"].d
    /\ tret["t1"] = OwnResult("t2")
    /\ tret["t1"] # OwnResult("t1")

\* What a visit of visitorGetArea with main's s2 or s3 leaves and returns.
C6_SquareAndBlob(v) ==
    /\ lastCall.sh = s2 => v = DblVal(16 * Scale)
    /\ lastCall.sh = s3 => v = DblVal(-100 * Scale)
    /\ lastCall.op = "invoke" => ret = v

OnArea == lastCall.d = "visitorGetArea" /\ lastCall.op \in HandleOps

TypeName(T) ==
    CASE T = "Circle" -> "circle" [] T = "Square" -> "square" [] T = "Blob" -> "blob"

\* What main has printed when line 157 is done.
NameOutput == <<
    [text |-> "===> Experiment 1: FunctionAdapter ", val |-> Void],
    [text |-> "Type of shape 1 = ", val |-> StrVal("circle")],
    [text |-> "Type of shape 2 = ", val |-> StrVal("square")],
    [text |-> "Type of shape 3 = ", val |-> StrVal("blob")] >>

\* C7: visitorGetName yields "circle", "square", "blob" for any Circle, Square,
\* Blob; main prints "circle" from get() after s1.accept, then "square" and
\* "blob" from operator() on s2 and s3, in that order.
C7_Names ==
    /\ (lastCall.d = "visitorGetName" /\ lastCall.op \in HandleOps) =>
          /\ get(Heap, "visitorGetName").val = StrVal(TypeName(lastCall.sh.type))
          /\ lastCall.op = "invoke" => ret = StrVal(TypeName(lastCall.sh.type))
    /\ caller = "main" =>
          \A i \in 1..Len(cout) : i <= Len(NameOutput) => cout[i] = NameOutput[i]

C7_Witness ==
    /\ caller = "main"
    /\ Len(cout) >= Len(NameOutput)
    /\ cout[4].val = StrVal("blob")

\* The two states of a dispatcher.
State(d) == IF handled[d] = NoShape THEN "no result yet" ELSE "has a last result"

\* C8: only a visit (direct, via accept or via operator()) changes a
\* dispatcher's state; every visit leaves it in "has a last result"; that state
\* is never left; get() changes neither the state nor the stored value.
C8_TwoStates ==
    [][\A d \in Adapters :
          /\ State(d)' # State(d) =>
                (CallStep /\ lastCall'.op \in HandleOps /\ lastCall'.d = d)
          /\ (CallStep /\ lastCall'.op \in HandleOps /\ lastCall'.d = d) =>
                State(d)' = "has a last result"
          /\ State(d) = "has a last result" => State(d)' = "has a last result"
          /\ (CallStep /\ lastCall'.op = "get") =>
                (adapter' = adapter /\ handled' = handled)]_vars

C8_Witness ==
    /\ lastCall.op = "get"
    /\ State(lastCall.d) = "has a last result"
    /\ ret = adapter[lastCall.d]._res
    /\ \E d \in Adapters : State(d) = "no result yet"

Handlers(fa) == <<fa._fn_circle, fa._fn_square, fa._fn_blob>>

\* C9: no call changes which function a dispatcher binds to Circle, Square or
\* Blob, and a call changes nothing of a dispatcher other than the one it is
\* made on.
C9_HandlerTableFixed ==
    [][\A d \in Adapters :
          /\ Handlers(adapter[d]) = CtorArgs(d)
          /\ Handlers(adapter'[d]) = Handlers(adapter[d])
          /\ adapter'[d] # adapter[d] =>
                (CallStep /\ lastCall'.op \in HandleOps /\ lastCall'.d = d)]_vars

C9_Witness ==
    /\ nCalls = MaxCalls
    /\ handled["visitorGetName"].type = "Circle"
    /\ handled["visitorGetArea"].type = "Square"
    /\ \A d \in Adapters : Handlers(adapter[d]) = CtorArgs(d)

\* C10: visitorX, built from f1, f2, f3 in declared order, stores each function
\* at the level of its own head type, so that visit(x) with x of the i-th type
\* invokes the i-th function exactly once and no other.
C10_ChainDispatch ==
    \A i \in 1..Len(XTypes) : InvokedByVisit(visitorX, XTypes[i]) = <<XFuncs[i]>>

====
